---- MODULE Spec2Model ----
(***************************************************************************)
(* FakePlayer (src/example/FakePlayer.ts): a simulated player driven by an *)
(* elapsed timer and one setTimeout handle, mirroring every transition to  *)
(* a remote endpoint through resilientFetch.                               *)
(*                                                                         *)
(* The model follows the event loop: an invocation of an async method is a *)
(* record in `calls`; it advances only at its await points (one fetch      *)
(* attempt, the metadata load), and everything between two awaits is one   *)
(* step.  Time advances in half seconds.                                   *)
(***************************************************************************)
EXTENDS Integers, FiniteSets, Bags, TLC

VARIABLES
    player,     \* the FakePlayer fields (lines 21-28)
    timers,     \* the event loop's armed setTimeout callbacks: [id, due (ms left)]
    status,     \* Player.status of the base class
    calls,      \* bag of async invocations suspended at an await
    nextCalls,  \* this.next() invocations since the last invocation or successful play
    playback,   \* history: the play that ran alone and succeeded, followed since
                \* by nothing but pause() and resume(), if any
    returned    \* history: the pause() or seek() that returned, or the call aborted, last

vars == <<player, timers, status, calls, nextCalls, playback, returned>>

NULL == "null"

----------------------------------------------------------------------------
(* Bounds of the model *)

\* duration (s) of the longest video the loader knows
MaxDur == 1
\* invocations suspended at the same time
MaxInFlight == 2

----------------------------------------------------------------------------
(* Program constants *)

\* retries passed to resilientFetch by every caller
Retries == 5
\* milliseconds per second: doGetPosition divides by it, #startTimeout multiplies
MsPerSecond == 1000
\* the one second of slack #startTimeout adds
SlackSeconds == 1
\* the constructor's volume level
DefaultLevel == 50
\* this.timeout = null: handles are positive
NoTimeout == 0

TickMs == MsPerSecond \div 2
MaxSeconds == MaxDur + 2

STOPPED == "STOPPED"
PLAYING == "PLAYING"
PAUSED == "PAUSED"
PLAYER_STATUSES == {STOPPED, PLAYING, PAUSED}

VideoIds == {"a", "b"}
\* what VideoLoader.getInfo resolves to for a video it finds
\* (video "b" comes without a duration)
Info(video) ==
    IF video = "a" THEN [title |-> "A", duration |-> MaxDur]
    ELSE [title |-> "B"]
\* const duration = info.duration || 0
InfoDuration(info) == IF "duration" \in DOMAIN info THEN info.duration ELSE 0

DefaultVolume == [level |-> DefaultLevel, muted |-> FALSE]
Volumes == {DefaultVolume, [level |-> 20, muted |-> TRUE]}

----------------------------------------------------------------------------
(* The elapsed timer (timer-node's Timer, by the contract of spec 4.1) *)

NewTimer == [state |-> "idle", ms |-> 0]
isStarted(t) == t.state # "idle"
isPaused(t) == t.state = "paused"
isStopped(t) == t.state = "stopped"
isRunning(t) == t.state = "running"
timerStart(t) ==
    IF isStarted(t) /\ ~isStopped(t) THEN t ELSE [state |-> "running", ms |-> 0]
timerPause(t) == IF isRunning(t) THEN [t EXCEPT !.state = "paused"] ELSE t
timerResume(t) == IF isPaused(t) THEN [t EXCEPT !.state = "running"] ELSE t
timerStop(t) == IF isStarted(t) THEN [t EXCEPT !.state = "stopped"] ELSE t
timerClear(t) == NewTimer
timerMs(t) == t.ms
\* TickMs of wall-clock time pass
timerAdvance(t) == IF isRunning(t) THEN [t EXCEPT !.ms = @ + TickMs] ELSE t

----------------------------------------------------------------------------
(* FakePlayer: the local effects.  w = [player, timers] *)

World == [player |-> player, timers |-> timers]

\* setTimeout's delay: a negative delay fires at once
Delay(seconds) == IF seconds < 0 THEN 0 ELSE seconds * MsPerSecond

FreshHandle(w) ==
    IF w.timers = {} THEN 1
    ELSE 1 + (CHOOSE m \in {t.id : t \in w.timers} :
                 \A t \in w.timers : t.id <= m)

\* #resetTimeout (lines 150-155): clearTimeout of a fired handle is a no-op
resetTimeout(w) ==
    IF w.player.timeout # NoTimeout
    THEN [player |-> [w.player EXCEPT !.timeout = NoTimeout],
          timers |-> {t \in w.timers : t.id # w.player.timeout}]
    ELSE w

\* #startTimeout without its #resetTimeout
startTimeoutKeepingOld(w, duration) ==
    LET h == FreshHandle(w) IN
    [player |-> [w.player EXCEPT !.timeout = h],
     timers |-> w.timers \cup {[id |-> h, due |-> Delay(duration + SlackSeconds)]}]

\* #startTimeout (lines 157-168): arm the end-of-video callback
startTimeout(w, duration) ==
    LET r == resetTimeout(w)
        h == FreshHandle(r) IN
    [player |-> [r.player EXCEPT !.timeout = h],
     timers |-> r.timers \cup {[id |-> h, due |-> Delay(duration + SlackSeconds)]}]

\* doGetPosition (lines 90-92)
doGetPosition(p) == p.seekOffset + (timerMs(p.timer) \div MsPerSecond)

\* #fakeResume starting the timer afresh whatever its state
fakeResumeRestarting(w) ==
    LET w2 == [w EXCEPT !.player.timer = timerStart(timerClear(@))] IN
    startTimeout(w2, w2.player.duration - w2.player.seekOffset)

\* #fakeResume (lines 98-107)
fakeResume(w) ==
    LET t == w.player.timer
        t2 == IF isPaused(t) THEN timerResume(t)
              ELSE IF isStopped(t) \/ ~isStarted(t) THEN timerStart(t)
              ELSE t
        w2 == [w EXCEPT !.player.timer = t2] IN
    startTimeout(w2, w2.player.duration - w2.player.seekOffset)

\* #fakePlay naming the video before its metadata is loaded
fakePlayBeginNamingVideo(w, position) ==
    resetTimeout([w EXCEPT !.player.seekOffset = position,
                           !.player.timer = timerStop(@),
                           !.player.currentVideoId = "a"])

\* #fakePlay up to its await (lines 110-113)
fakePlayBegin(w, position) ==
    resetTimeout([w EXCEPT !.player.seekOffset = position,
                           !.player.timer = timerStop(@)])

\* #fakePlay after the await with the timer left as it is
fakePlayLoadedNoRestart(w, video, info) ==
    LET duration == InfoDuration(info)
        w2 == [w EXCEPT !.player.currentVideoId = video,
                        !.player.currentVideoTitle = info.title,
                        !.player.timer = timerResume(@)]
        w3 == startTimeout(w2, duration - w2.player.seekOffset) IN
    [w3 EXCEPT !.player.duration = duration]

\* #fakePlay after the await, info not null (lines 115-123)
fakePlayLoaded(w, video, info) ==
    LET duration == InfoDuration(info)
        w2 == [w EXCEPT !.player.currentVideoId = video,
                        !.player.currentVideoTitle = info.title,
                        !.player.timer = timerStart(@)]
        w3 == startTimeout(w2, duration - w2.player.seekOffset) IN
    [w3 EXCEPT !.player.duration = duration]

\* #fakePause toggling the timer between paused and running
fakePauseToggling(w) ==
    resetTimeout([w EXCEPT !.player.timer =
                     IF isPaused(@) THEN timerResume(@) ELSE timerPause(@)])

\* #fakePause without its #resetTimeout
fakePauseKeepingCallback(w) == [w EXCEPT !.player.timer = timerPause(@)]

\* #fakePause (lines 127-131)
fakePause(w) == resetTimeout([w EXCEPT !.player.timer = timerPause(@)])

\* #fakeStop putting the volume back to its default as well
fakeStopResettingVolume(w) ==
    resetTimeout([w EXCEPT !.player.seekOffset = 0,
                           !.player.timer = timerClear(timerStop(@)),
                           !.player.volume = DefaultVolume])

\* #fakeStop (lines 133-138)
fakeStop(w) ==
    resetTimeout([w EXCEPT !.player.seekOffset = 0,
                           !.player.timer = timerClear(timerStop(@))])

\* #fakeSeek resuming whatever the status
fakeSeekAlwaysResuming(w, position, st) ==
    fakeResume(resetTimeout([w EXCEPT !.player.timer = timerClear(timerStop(@)),
                                      !.player.seekOffset = position]))

\* #fakeSeek stopping the timer without clearing it
fakeSeekKeepingElapsed(w, position, st) ==
    LET w2 == resetTimeout([w EXCEPT !.player.timer = timerStop(@),
                                     !.player.seekOffset = position]) IN
    IF st = PLAYING THEN fakeResume(w2) ELSE w2

\* #fakeSeek (lines 140-148); st is this.status
fakeSeek(w, position, st) ==
    LET w2 == resetTimeout([w EXCEPT !.player.timer = timerClear(timerStop(@)),
                                     !.player.seekOffset = position]) IN
    IF st = PLAYING THEN fakeResume(w2) ELSE w2

\* the fired callback going on to next() without stopping and clearing the timer
playbackEndedKeepingTimer(w) == [w EXCEPT !.player.seekOffset = 0]

\* the fired callback after its await this.pause() (lines 162-165), before next()
playbackEnded(w) ==
    [w EXCEPT !.player.seekOffset = 0,
              !.player.timer = timerClear(timerStop(@))]

----------------------------------------------------------------------------
(* The base Player: its status after an operation whose do-method returned *)

statusAfter(op, result, st) ==
    IF ~result THEN st
    ELSE IF op = "play" THEN PLAYING
    ELSE IF op = "pause" THEN PAUSED
    ELSE IF op = "resume" THEN PLAYING
    ELSE IF op = "stop" THEN STOPPED
    ELSE st

----------------------------------------------------------------------------
(* resilientFetch (lines 191-208): what one attempt of the loop leads to *)

\* fetch resolves with response.ok, resolves with a non-2xx status, or rejects;
\* the AbortController is never aborted, so no attempt ends in an AbortError
FetchOutcomes == {"ok", "http", "network"}
FetchFailures == FetchOutcomes \ {"ok"}

\* resilientFetch giving up on the first failed attempt
resilientFetchNoRetry(attempt, outcome, retries) ==
    IF outcome = "ok" THEN "return" ELSE "throw"

\* resilientFetch treating an AbortError like any other failure
resilientFetchRetryingAborts(attempt, outcome, retries) ==
    IF outcome = "ok" THEN "return"
    ELSE IF attempt = retries THEN "throw"
    ELSE "retry"

resilientFetch(attempt, outcome, retries) ==
    IF outcome = "ok" THEN "return"
    ELSE IF attempt = retries \/ outcome = "abort" THEN "throw"
    ELSE "retry"

----------------------------------------------------------------------------
(* Invocations *)

\* an async method suspended in its first fetch attempt; clean: nothing else
\* was in flight when it was invoked, and nothing has been invoked since
NewCall(op, video, position, cb) ==
    [op |-> op, video |-> video, position |-> position, pc |-> "fetch",
     attempt |-> 1, cb |-> cb, clean |-> calls = EmptyBag, pre |-> {}]

\* a call that ran alone so far no longer does (a clean call is alone in the bag)
Interleaved(B) ==
    IF \E x \in BagToSet(B) : x.clean
    THEN SetToBag({[x EXCEPT !.clean = FALSE, !.pre = {}] : x \in BagToSet(B)})
    ELSE B

Launch(c) == calls' = Interleaved(calls) (+) SetToBag({c})
Drop(c) == calls' = calls (-) SetToBag({c})
Replace(c, c2) == calls' = (calls (-) SetToBag({c})) (+) SetToBag({c2})

CanInvoke == BagCardinality(calls) < MaxInFlight

\* what #fakePlay is about to overwrite, kept by a play that runs alone
Snapshot(w, st) == [player |-> w.player, timers |-> w.timers, status |-> st]

Init ==
    /\ player = [currentVideoId |-> NULL, currentVideoTitle |-> NULL,
                 timer |-> NewTimer, seekOffset |-> 0, duration |-> 0,
                 timeout |-> NoTimeout, volume |-> DefaultVolume]
    /\ timers = {}
    /\ status = STOPPED
    /\ calls = EmptyBag
    /\ nextCalls = 0
    /\ playback = {}
    /\ returned = {}

\* history: pause() or resume() is invoked during the playback followed; it is
\* followed no further once operations overlap
Touched ==
    IF calls = EmptyBag THEN {[pb EXCEPT !.untouched = FALSE] : pb \in playback}
    ELSE {}

\* play(video, position) -> doPlay (lines 49-52), up to its await
doPlay(video, position) ==
    /\ CanInvoke
    /\ Launch(NewCall("play", video, position, FALSE))
    /\ playback' = {}
    /\ returned' = {}
    /\ nextCalls' = 0
    /\ UNCHANGED <<player, timers, status>>

\* pause() -> doPause (lines 56-58), up to its await
doPause ==
    /\ CanInvoke
    /\ Launch(NewCall("pause", NULL, 0, FALSE))
    /\ playback' = Touched
    /\ returned' = IF calls = EmptyBag THEN {r \in returned : r.op = "pause"} ELSE {}
    /\ nextCalls' = 0
    /\ UNCHANGED <<player, timers, status>>

\* resume() -> doResume (lines 62-64), up to its await
doResume ==
    /\ CanInvoke
    /\ Launch(NewCall("resume", NULL, 0, FALSE))
    /\ playback' = Touched
    /\ returned' = {}
    /\ nextCalls' = 0
    /\ UNCHANGED <<player, timers, status>>

\* stop() -> doStop (lines 68-70), up to its await
doStop ==
    /\ CanInvoke
    /\ Launch(NewCall("stop", NULL, 0, FALSE))
    /\ playback' = {}
    /\ returned' = {}
    /\ nextCalls' = 0
    /\ UNCHANGED <<player, timers, status>>

\* seek(position) -> doSeek (lines 74-76), up to its await
doSeek(position) ==
    /\ CanInvoke
    /\ Launch(NewCall("seek", NULL, position, FALSE))
    /\ playback' = {}
    /\ returned' = {}
    /\ nextCalls' = 0
    /\ UNCHANGED <<player, timers, status>>

\* setVolume(volume) -> doSetVolume (lines 80-84): the fetch is not awaited
doSetVolume(volume) ==
    /\ CanInvoke
    /\ player' = [player EXCEPT !.volume = volume]
    /\ Launch(NewCall("volume", NULL, 0, FALSE))
    /\ playback' = {}
    /\ returned' = {}
    /\ nextCalls' = 0
    /\ UNCHANGED <<timers, status>>

----------------------------------------------------------------------------
(* Steps of a suspended invocation *)

\* history: invocation c returns; a pause() or seek() is recorded with the
\* positions before and after it, a pause() right after a pause() as the second
PauseReturned(c, posBefore, posAfter) ==
    IF c.op = "volume" THEN returned
    ELSE IF c.op = "pause" /\ ~c.cb
    THEN {[op |-> "pause", before |-> posBefore, position |-> posAfter,
           nth |-> IF \E r \in returned : r.op = "pause" THEN 2 ELSE 1]}
    ELSE IF c.op = "seek" /\ calls = SetToBag({c})
    THEN {[op |-> "seek", before |-> posBefore, position |-> posAfter, nth |-> 1]}
    ELSE {}

\* history: the fired callback's async function is over (returned or rejected)
ChainOver(c) ==
    IF c.cb THEN {[pb EXCEPT !.ended = TRUE] : pb \in playback} ELSE playback

\* history: the playback followed is paused by pause(), resumed by resume()
Followed(c) ==
    IF c.cb THEN ChainOver(c)
    ELSE IF c.op = "pause" THEN {[pb EXCEPT !.stage = "paused"] : pb \in playback}
    ELSE IF c.op = "resume"
    THEN {[pb EXCEPT !.stage = IF @ = "paused" THEN "resumed" ELSE @] :
             pb \in playback}
    ELSE playback

\* an attempt fails and the loop goes round (lines 201-206)
FetchRetry(c) ==
    /\ c.pc = "fetch"
    /\ \E outcome \in FetchFailures :
           resilientFetch(c.attempt, outcome, Retries) = "retry"
    /\ Replace(c, [c EXCEPT !.attempt = @ + 1])
    /\ UNCHANGED <<player, timers, status, nextCalls, playback, returned>>

\* the last attempt fails: resilientFetch throws (line 204), the awaiting
\* do-method rejects at its await and its #fake method never runs
FetchThrow(c) ==
    /\ c.pc = "fetch"
    /\ \E outcome \in FetchFailures :
           resilientFetch(c.attempt, outcome, Retries) = "throw"
    /\ Drop(c)
    /\ playback' = ChainOver(c)
    /\ UNCHANGED <<player, timers, status, nextCalls, returned>>

\* the world and status once the do-method of c has run its #fake method
Applied(c, w, st) ==
    IF c.op = "pause" THEN
        [w |-> IF c.cb THEN playbackEnded(fakePause(w)) ELSE fakePause(w),
         status |-> statusAfter("pause", TRUE, st)]
    ELSE IF c.op = "resume" THEN
        [w |-> fakeResume(w), status |-> statusAfter("resume", TRUE, st)]
    ELSE IF c.op = "stop" THEN
        [w |-> fakeStop(w), status |-> statusAfter("stop", TRUE, st)]
    ELSE IF c.op = "seek" THEN
        [w |-> fakeSeek(w, c.position, st), status |-> statusAfter("seek", TRUE, st)]
    ELSE [w |-> w, status |-> st]

\* fetch succeeds for pause/resume/stop/seek (and the detached volume call):
\* the do-method runs its #fake method and the base class sets the status;
\* the fired callback goes on to reset the player and call next() (162-165)
FetchReturn(c) ==
    /\ c.pc = "fetch"
    /\ c.op # "play"
    /\ resilientFetch(c.attempt, "ok", Retries) = "return"
    /\ LET a == Applied(c, World, status) IN
        /\ player' = a.w.player
        /\ timers' = a.w.timers
        /\ status' = a.status
        /\ returned' = PauseReturned(c, doGetPosition(player), doGetPosition(a.w.player))
    /\ nextCalls' = IF c.cb THEN nextCalls + 1 ELSE nextCalls
    /\ playback' = Followed(c)
    /\ Drop(c)

\* fetch succeeds for play: #fakePlay runs up to its await of getInfo
PlayBegins(c) ==
    /\ c.pc = "fetch"
    /\ c.op = "play"
    /\ resilientFetch(c.attempt, "ok", Retries) = "return"
    /\ LET w == fakePlayBegin(World, c.position) IN
        /\ player' = w.player
        /\ timers' = w.timers
    /\ Replace(c, [c EXCEPT !.pc = "load",
                            !.pre = IF c.clean THEN {Snapshot(World, status)} ELSE {}])
    /\ returned' = {}
    /\ UNCHANGED <<status, nextCalls, playback>>

\* getInfo resolves with the video's info: the rest of #fakePlay, doPlay
\* returns true and the base class sets PLAYING
MetadataLoaded(c) ==
    /\ c.pc = "load"
    /\ LET w == fakePlayLoaded(World, c.video, Info(c.video)) IN
        /\ player' = w.player
        /\ timers' = w.timers
    /\ status' = statusAfter("play", TRUE, status)
    /\ nextCalls' = 0
    /\ playback' = IF c.clean
                   THEN {[position |-> c.position, ms |-> 0, stage |-> "playing",
                          untouched |-> TRUE, ended |-> FALSE]}
                   ELSE {}
    /\ returned' = {}
    /\ Drop(c)

\* getInfo resolves with null: #fakePlay returns false (line 124)
MetadataMissing(c) ==
    /\ c.pc = "load"
    /\ status' = statusAfter("play", FALSE, status)
    /\ returned' = {}
    /\ Drop(c)
    /\ UNCHANGED <<player, timers, nextCalls, playback>>

\* an armed timeout is due: the callback starts and suspends in this.pause()
\* (lines 159-161), which is doPause up to its await
TimeoutFires(t) ==
    /\ t.due = 0
    /\ CanInvoke
    /\ timers' = timers \ {t}
    /\ Launch(NewCall("pause", NULL, 0, TRUE))
    /\ returned' = {}
    /\ UNCHANGED <<player, status, nextCalls, playback>>

\* half a second passes; a due timeout fires before time moves on
Tick ==
    /\ \A t \in timers : t.due >= TickMs
    /\ timerMs(player.timer) < MaxSeconds * MsPerSecond
    /\ \A pb \in playback : pb.ms < MaxSeconds * MsPerSecond
    /\ player' = [player EXCEPT !.timer = timerAdvance(@)]
    /\ timers' = {[t EXCEPT !.due = @ - TickMs] : t \in timers}
    /\ playback' = {IF pb.ended \/ pb.stage = "paused" THEN pb
                     ELSE [pb EXCEPT !.ms = @ + TickMs] : pb \in playback}
    /\ returned' = {r \in returned : r.op = "pause"}
    /\ UNCHANGED <<status, calls, nextCalls>>

\* the operations a caller invokes; play and seek positions lie within the video
Invocation ==
    \/ \E video \in VideoIds :
         \E position \in 0..InfoDuration(Info(video)) : doPlay(video, position)
    \/ doPause
    \/ doResume
    \/ doStop
    \/ \E position \in 0..player.duration : doSeek(position)
    \/ \E volume \in Volumes : doSetVolume(volume)

\* what the event loop runs on its own
Progress ==
    \/ \E c \in BagToSet(calls) : FetchRetry(c)
    \/ \E c \in BagToSet(calls) : FetchThrow(c)
    \/ \E c \in BagToSet(calls) : FetchReturn(c)
    \/ \E c \in BagToSet(calls) : PlayBegins(c)
    \/ \E c \in BagToSet(calls) : MetadataLoaded(c)
    \/ \E c \in BagToSet(calls) : MetadataMissing(c)
    \/ \E t \in timers : TimeoutFires(t)
    \/ Tick

Next == Invocation \/ Progress

\* operations invoked at any time, also while others are suspended
Spec == Init /\ [][Next]_vars

\* a caller that awaits each operation before it invokes the next one
SeqNext == (calls = EmptyBag /\ Invocation) \/ Progress

SeqSpec == Init /\ [][SeqNext]_vars

\* an attempt goes to an endpoint that never responds: the await of fetch
\* (line 196) stays pending; the timeout parameter is not used and the
\* AbortController is never aborted, so nothing abandons the attempt
FetchHangs(c) ==
    /\ c.pc = "fetch"
    /\ Replace(c, [c EXCEPT !.pc = "hung"])
    /\ UNCHANGED <<player, timers, status, nextCalls, playback, returned>>

HangNext == SeqNext \/ \E c \in BagToSet(calls) : FetchHangs(c)

\* a caller that awaits each operation, endpoints that may never respond, and
\* an event loop that runs whatever is ready to run
HangSpec == Init /\ [][HangNext]_vars /\ WF_vars(Progress)

\* an attempt of c fails with the given outcome: the catch block (lines 201-206)
\* either throws, and the awaiting function rejects, or lets the loop go round
FetchFailsWith(c, outcome) ==
    /\ c.pc = "fetch"
    /\ LET r == resilientFetch(c.attempt, outcome, Retries) IN
        \/ /\ r = "throw"
           /\ Drop(c)
           /\ playback' = ChainOver(c)
           /\ returned' = IF outcome = "abort"
                          THEN {[op |-> "aborted", attempt |-> c.attempt]}
                          ELSE returned
        \/ /\ r = "retry"
           /\ Replace(c, [c EXCEPT !.attempt = @ + 1])
           /\ UNCHANGED <<playback, returned>>
    /\ UNCHANGED <<player, timers, status, nextCalls>>

\* fetch rejects with an AbortError (raised outside this file: its own
\* AbortController is never aborted)
FetchAborted(c) == FetchFailsWith(c, "abort")

AbortNext == SeqNext \/ \E c \in BagToSet(calls) : FetchAborted(c)

\* a caller that awaits each operation, and attempts that may be aborted
AbortSpec == Init /\ [][AbortNext]_vars

----------------------------------------------------------------------------
(* Properties *)

Position == doGetPosition(player)
Quiet == calls = EmptyBag
MirroredLocalOps == {"pause", "resume", "stop", "seek"}

\* invocation c is over in this step: its do-method returned or rejected
Finishes(c) ==
    FetchThrow(c) \/ FetchReturn(c) \/ MetadataLoaded(c) \/ MetadataMissing(c)

\* C1: when every attempt of the mirrored call of pause(), resume(), stop() or
\* seek(p) has failed, the operation's local effect is applied all the same and
\* the status moves to the operation's resulting status.
C1_LocalEffectDespiteRemoteFailure ==
    [][\A c \in BagToSet(calls) :
          (c.op \in MirroredLocalOps /\ ~c.cb /\ FetchThrow(c))
          => LET a == Applied(c, World, status) IN
             /\ player' = a.w.player
             /\ timers' = a.w.timers
             /\ status' = a.status]_vars

\* C2: between operations the position seekOffset + floor(ms / 1000) lies in
\* 0 .. duration + 1, whatever operations, ticks and callback firings came
\* before (positions of play and seek being taken within the video).
C2_PositionWithinDuration ==
    Quiet => (0 <= Position /\ Position <= player.duration + SlackSeconds)

\* an operation that arms the end-of-video callback takes effect in this step
Arms(c) ==
    \/ c.op = "resume" /\ FetchReturn(c)
    \/ c.op = "seek" /\ status = PLAYING /\ FetchReturn(c)
    \/ MetadataLoaded(c)

\* C3: at most one end-of-video callback is armed in every reachable state,
\* however operations, remote calls, metadata loads and firings interleave;
\* and right after an operation that arms one (a play that loads, resume, seek
\* while PLAYING) exactly one is armed.
C3_OneCallbackPending ==
    /\ [](Cardinality(timers) <= 1)
    /\ [][\A c \in BagToSet(calls) : Arms(c) => Cardinality(timers') = 1]_vars

\* a callback has just been armed over a timer that had already been running,
\* while another invocation is suspended
C3_Witness ==
    /\ ~Quiet
    /\ timerMs(player.timer) > 0
    /\ \E t \in timers :
          /\ t.id = player.timeout
          /\ t.due = Delay(player.duration - player.seekOffset + SlackSeconds)

\* C4: a play whose metadata loader returns null reports failure and leaves
\* status, seekOffset, the timer, duration, the video identity and the pending
\* callback as they were when the play set out.
C4_FailedPlayLeavesState ==
    [][\A c \in BagToSet(calls) :
          MetadataMissing(c) =>
             \A pre \in c.pre :
                /\ status' = pre.status
                /\ player'.seekOffset = pre.player.seekOffset
                /\ player'.timer.state = pre.player.timer.state
                /\ player'.duration = pre.player.duration
                /\ player'.currentVideoId = pre.player.currentVideoId
                /\ player'.currentVideoTitle = pre.player.currentVideoTitle
                /\ (timers' = {}) <=> (pre.timers = {})]_vars

\* C5: after a play at position 0 that succeeded and no further invocation,
\* once the end-of-video callback has fired and run, the status is PAUSED,
\* seekOffset is 0, the timer is cleared and next() was invoked exactly once.
C5_PlaybackEndsWithOneNext ==
    \A pb \in playback :
       (pb.untouched /\ pb.position = 0) =>
          /\ nextCalls <= 1
          /\ pb.ended =>
                /\ status = PAUSED
                /\ player.seekOffset = 0
                /\ player.timer = NewTimer
                /\ nextCalls = 1

\* C6: when a play(video, p) that ran alone succeeds, getPosition() is p, the
\* status is PLAYING and the duration is that of the loaded metadata (0 if
\* absent), whatever the timer held before; and with no further operation,
\* after k seconds getPosition() is p + k.
C6_PlayStartsAtPosition ==
    /\ [][\A c \in BagToSet(calls) :
            (c.clean /\ MetadataLoaded(c)) =>
               /\ doGetPosition(player') = c.position
               /\ status' = PLAYING
               /\ player'.duration = InfoDuration(Info(c.video))]_vars
    /\ [](\A pb \in playback :
            (pb.untouched /\ ~pb.ended) =>
               /\ status = PLAYING
               /\ Position = pb.position + (pb.ms \div MsPerSecond))

\* a play at position 1 ran alone and succeeded a second ago
C6_Witness ==
    \E pb \in playback :
       /\ pb.untouched /\ ~pb.ended
       /\ pb.position = 1
       /\ pb.ms = MsPerSecond
       /\ Position = 2

\* C7: through play, pause and resume the position is the play's position plus
\* the whole seconds played: a pause freezes it, the time spent paused adds
\* nothing, and after resume the count goes on from where it paused.
C7_PausedTimeDoesNotCount ==
    \A pb \in playback :
       ~pb.ended =>
          /\ Position = pb.position + (pb.ms \div MsPerSecond)
          /\ pb.stage = "paused" => ~isRunning(player.timer)
          /\ pb.stage = "resumed" => isRunning(player.timer)

\* resumed after a pause, with more than a second played in all
C7_Witness ==
    \E pb \in playback :
       /\ pb.stage = "resumed" /\ ~pb.ended
       /\ pb.ms > MsPerSecond
       /\ Position = pb.position + 1

\* C8: a seek(p) that returns leaves the status as it was; if it was PLAYING
\* the timer runs again from zero and exactly one callback is armed, due in
\* (duration - p) + 1 seconds; otherwise the timer is stopped and cleared and
\* no callback is armed.
C8_SeekKeepsStatus ==
    [][\A c \in BagToSet(calls) :
          (c.op = "seek" /\ FetchReturn(c)) =>
             /\ status' = status
             /\ IF status = PLAYING
                THEN /\ player'.timer = [state |-> "running", ms |-> 0]
                     /\ timers' = {[id |-> player'.timeout,
                                    due |-> (player.duration - c.position
                                               + SlackSeconds) * MsPerSecond]}
                ELSE /\ player'.timer = NewTimer
                     /\ timers' = {}
                     /\ player'.timeout = NoTimeout]_vars

\* a seek to 1 has just returned while PLAYING a one-second video and re-armed
\* its callback a second ahead
C8_Witness ==
    /\ Quiet
    /\ status = PLAYING
    /\ \E r \in returned : r.op = "seek" /\ r.position = 1
    /\ player.timer = [state |-> "running", ms |-> 0]
    /\ timers = {[id |-> player.timeout, due |-> MsPerSecond]}

\* C9: a pause() that returns right after a pause() that returned changes
\* nothing: status, position, timer and the absence of an armed callback are
\* those the first one left.
C9_PauseIdempotent ==
    [][\A c \in BagToSet(calls) :
          (c.op = "pause" /\ ~c.cb /\ FetchReturn(c)) =>
             /\ status' = PAUSED
             /\ timers' = {}
             /\ ~isRunning(player'.timer)
             /\ \A r \in returned :
                   /\ doGetPosition(player') = r.position
                   /\ status' = status
                   /\ player'.seekOffset = player.seekOffset
                   /\ player'.timer = player.timer
                   /\ timers' = timers]_vars

\* a second pause() in a row has returned, with a second played on the timer
C9_Witness ==
    /\ Quiet
    /\ status = PAUSED
    /\ isPaused(player.timer)
    /\ timerMs(player.timer) >= MsPerSecond
    /\ \E r \in returned : r.op = "pause" /\ r.nth = 2 /\ r.position = Position

\* C10: right after a seek(p) that returns, getPosition() is p, whatever the
\* status and whatever time the timer had accumulated.
C10_SeekRoundTrip ==
    [][\A c \in BagToSet(calls) :
          (c.op = "seek" /\ FetchReturn(c)) =>
             doGetPosition(player') = c.position]_vars

\* a seek back to 0 has just returned on a player that stood at position 2
C10_Witness ==
    /\ Quiet
    /\ Position = 0
    /\ \E r \in returned : r.op = "seek" /\ r.before = 2 /\ r.position = 0

\* the remote call of c returns its body in this step
Returns(c) == FetchReturn(c) \/ PlayBegins(c)

\* C11: a remote call makes its attempts one after the other, numbered from 1:
\* a failed attempt before the last is followed by the next one, the call
\* returns at the attempt that succeeds (attempt k after k - 1 failures,
\* 1 <= k <= retries) and makes no attempt after it, and it throws only when
\* the attempt that fails is attempt number retries.
C11_AttemptAccounting ==
    /\ [](\A c \in BagToSet(calls) : c.attempt \in 1..Retries)
    /\ [][\A c \in BagToSet(calls) :
            /\ FetchRetry(c) =>
                  /\ c.attempt < Retries
                  /\ calls' = (calls (-) SetToBag({c}))
                                 (+) SetToBag({[c EXCEPT !.attempt = c.attempt + 1]})
            /\ FetchThrow(c) =>
                  /\ c.attempt = Retries
                  /\ calls' = calls (-) SetToBag({c})
            /\ Returns(c) =>
                  \A c2 \in BagToSet(calls') :
                     c2.pc = "fetch" => c2 \in BagToSet(calls (-) SetToBag({c}))]_vars

\* a play whose remote call failed four times and returned at the fifth attempt
\* is loading its metadata
C11_Witness ==
    \E c \in BagToSet(calls) : c.op = "play" /\ c.pc = "load" /\ c.attempt = Retries

\* C12: every remote call terminates, also against an endpoint that never
\* responds, so that every invocation suspended at its remote call is
\* eventually over (its local effect applied or its failure reported).
C12_RemoteCallTerminates == (~Quiet) ~> Quiet

\* C13: no failure of a remote call escapes resilientFetch: no step is one in
\* which a call that exhausted its attempts throws into the function awaiting
\* it (doPlay, doPause, doResume, doStop, doSeek, also on behalf of the fired
\* callback) or, for the detached call of doSetVolume, into nobody.
C13_NoRemoteFailureEscapes ==
    [][\A c \in BagToSet(calls) : ~FetchThrow(c)]_vars

\* C14: whenever the status is PAUSED or STOPPED the timer is not running and
\* no end-of-video callback is armed, however invocations, remote calls and
\* metadata loads interleave.
C14_FrozenWhenNotPlaying ==
    status \in {PAUSED, STOPPED} =>
        (~isRunning(player.timer) /\ timers = {})

\* a pause() has just been applied, with time on the timer, while a play is
\* suspended at its metadata load
C14_Witness ==
    /\ status = PAUSED
    /\ isPaused(player.timer)
    /\ timerMs(player.timer) > 0
    /\ \E r \in returned : r.op = "pause"
    /\ \E c \in BagToSet(calls) : c.op = "play" /\ c.pc = "load"

\* next() is invoked in this step
NextSignalled == nextCalls' = nextCalls + 1

\* C15: next() is invoked only by the fired callback, in the step in which its
\* pause() returned, and by then the player is paused (status PAUSED, no
\* callback armed), seekOffset is 0 and the timer is stopped and cleared.
C15_NextAfterReset ==
    [][NextSignalled =>
          /\ \E c \in BagToSet(calls) : c.cb /\ c.op = "pause" /\ FetchReturn(c)
          /\ status' = PAUSED
          /\ timers' = {}
          /\ player'.seekOffset = 0
          /\ player'.timer = NewTimer]_vars

\* next() has been invoked at the end of a playback that started at position 1
C15_Witness ==
    /\ nextCalls = 1
    /\ player.seekOffset = 0
    /\ player.timer = NewTimer
    /\ \E pb \in playback : pb.ended /\ pb.position = 1 /\ pb.ms >= MsPerSecond

\* C16: an attempt that fails with an AbortError ends the call at once,
\* whatever the number of the attempt; an attempt before the last that fails
\* otherwise is followed by the next attempt.
C16_AbortEndsCall ==
    [][\A c \in BagToSet(calls) :
          /\ FetchAborted(c) => calls' = calls (-) SetToBag({c})
          /\ \A outcome \in FetchFailures :
                (c.attempt < Retries /\ FetchFailsWith(c, outcome)) =>
                   calls' = (calls (-) SetToBag({c}))
                              (+) SetToBag({[c EXCEPT !.attempt = c.attempt + 1]})]_vars

\* a remote call has just been ended by an AbortError at its second attempt
C16_Witness ==
    \E r \in returned : r.op = "aborted" /\ r.attempt = 2

\* C17: setVolume(v) sets the volume to v in the step that invokes it and
\* leaves status, seekOffset, timer, duration, video identity and the armed
\* callback alone; no other step changes the volume.
C17_VolumeOnlyBySetVolume ==
    /\ [][\A v \in Volumes :
            doSetVolume(v) =>
               /\ player' = [player EXCEPT !.volume = v]
               /\ timers' = timers
               /\ status' = status]_vars
    /\ [][player'.volume # player.volume =>
            \E v \in Volumes : doSetVolume(v)]_vars

\* the volume set by setVolume is still there after the playback of a video
\* was stopped
C17_Witness ==
    /\ Quiet
    /\ player.volume = [level |-> 20, muted |-> TRUE]
    /\ status = STOPPED
    /\ player.currentVideoId = "a"

\* the video the player holds, with its title and duration
Loaded == <<player.currentVideoId, player.currentVideoTitle, player.duration>>

\* C18: duration, videoId and videoTitle are 0, null and null until a metadata
\* load succeeds, change in no other step, and are set together by a
\* successful load to the values of the video loaded.
C18_IdentityOnlyByLoad ==
    /\ [](\/ Loaded = <<NULL, NULL, 0>>
          \/ \E video \in VideoIds :
                Loaded = <<video, Info(video).title, InfoDuration(Info(video))>>)
    /\ [][Loaded' # Loaded => \E c \in BagToSet(calls) : MetadataLoaded(c)]_vars
    /\ [][\A c \in BagToSet(calls) :
            MetadataLoaded(c) =>
               Loaded' = <<c.video, Info(c.video).title,
                           InfoDuration(Info(c.video))>>]_vars

\* video b, which has no duration, was loaded and its playback has ended
C18_Witness ==
    /\ Loaded = <<"b", "B", 0>>
    /\ nextCalls = 1
    /\ status = PAUSED

\* C19: whenever an end-of-video callback is armed the timer is running,
\* however invocations, remote calls, metadata loads and firings interleave.
C19_ArmedImpliesRunning ==
    timers # {} => isRunning(player.timer)

\* C20: once a pause() has applied its local effect, and until an operation
\* arms the callback again, no step invokes next().
C20_NoNextAfterPause ==
    [][(\E r \in returned : r.op = "pause") => ~NextSignalled]_vars

====
